---- MODULE Spec2Model ----
(***************************************************************************)
(* Model of data_producer.py: the startup sequence of the entry point, the *)
(* pooled write path (create_table, insert_data) and the generation loop   *)
(* (generate_data), together with the logging configuration that decides   *)
(* whether logging.error raises, and the delivery of KeyboardInterrupt.    *)
(*                                                                         *)
(* The program is one thread.  pc = <<function, statement>> is the         *)
(* statement the thread executes next.  A KeyboardInterrupt is raised by   *)
(* the interpreter between two statements (Python: "a KeyboardInterrupt    *)
(* may appear at any point during execution"), at most once per run.       *)
(***************************************************************************)
EXTENDS Integers, Sequences, FiniteSets, TLC

\* ---- bounds of the model ------------------------------------------------
MaxIters == 2        \* outer iterations of generate_data that are explored

\* ---- program constants --------------------------------------------------
minconn == 1         \* SimpleConnectionPool(minconn=1, ...)
maxconnOffByOne == 10 + 1   \* maxconn written one too large
maxconn == 10        \* SimpleConnectionPool(..., maxconn=10, ...)
BurstSizeShort == 100 - 1   \* range(100) written one too short
BurstSize == 100     \* for _ in range(100)
INFO == 20           \* logging.INFO
WARNING == 30        \* logging.WARNING
ERROR == 40          \* logging.ERROR
CRITICAL == 50       \* logging.CRITICAL

\* values LOG_LEVEL can name (the root logger's level)
LogLevels == {INFO, WARNING, ERROR, CRITICAL}

\* connection objects; at most maxconn are checked out and minconn idle
ConnIds == 0..maxconn
Unbound == -1        \* a local variable that was never assigned
NoPc == <<"none", "none">>

VARIABLES
    pc,          \* <<function, statement>> executed next; <<"main","done">>, <<"main","crashed">>
    exc,         \* the exception that is propagating, "none" when there is none
    crashedIn,   \* function whose exception ended the process, "none" otherwise
    logLevel,    \* level of the root logger set by setup_logging
    raiseHandler,\* RaiseOnErrorHandler is installed on the root logger
    logged,      \* messages handed to the file and console handlers
    sigAt,       \* pc at which KeyboardInterrupt was raised, NoPc when it was not
    dbExists,    \* the target database exists in the store
    tableExists, \* the target table exists in the store
    dbRuns,      \* number of times create_database was entered
    dbDone,      \* create_database has finished (returned or raised)
    tableRuns,   \* number of times create_table was entered
    tableDone,   \* create_table has finished (returned or raised)
    tableReady,  \* create_table ran to the end of its try body and returned normally
    poolBuilt,   \* setup_connection_pool returned a pool
    poolIdle,    \* the pool's _pool list: idle connections
    used,        \* the pool's _used: connections checked out
    connState,   \* per connection: "none","idle","intrans","inerror","bad","closed"
    conn,        \* local variable conn of create_table / insert_data (Unbound when unassigned)
    call,        \* bookkeeping of the current or latest create_table / insert_data call
    phase,       \* signal_type of the insert_data call generate_data issued last
    burst,       \* index of the for loop over range(100)
    iter,        \* completed outer iterations of generate_data
    genStarted,  \* generate_data has issued its first insert_data call
    sched,       \* Scheduler state: "Idle", "Running", "Stopped"; "Failed" when an
                 \* exception unwound generate_data
    powerSent,   \* power samples submitted since the latest state_change sample
    caught       \* the exception `except Exception as e` bound last, "none" before

vars == <<pc, exc, crashedIn, logLevel, raiseHandler, logged, sigAt, dbExists,
          tableExists, dbRuns, dbDone, tableRuns, tableDone, tableReady,
          poolBuilt, poolIdle, used, connState, conn, call, phase, burst, iter,
          genStarted, sched, powerSent, caught>>

storeVars == <<dbExists, tableExists>>
poolVars == <<poolIdle, used, connState>>
bootVars == <<dbRuns, dbDone, tableRuns, tableDone, tableReady, poolBuilt>>
loopVars == <<phase, burst, iter, genStarted, sched, powerSent>>
logCfg == <<logLevel, raiseHandler>>

\* fn: the function; state: "active", "returned" or "raised"; acq, rel: successful
\* getconn() and putconn() calls it made; committed: rows it committed;
\* failedAt: the try-body statement that raised an Exception; err: the
\* exception that left the call.
NoCall == [fn |-> "none", state |-> "none", acq |-> 0, rel |-> 0,
           committed |-> 0, failedAt |-> "none", err |-> "none"]
NewCall(f) == [fn |-> f, state |-> "active", acq |-> 0, rel |-> 0,
               committed |-> 0, failedAt |-> "none", err |-> "none"]

\* ---- logging -------------------------------------------------------------
\* Logger.isEnabledFor: a record is created only at or above the root level.
Enabled(level) == level >= logLevel

\* The file and console handlers (added first by basicConfig) get the record.
Handled(msg, level) == IF Enabled(level) THEN logged \cup {msg} ELSE logged

\* emit with `>` in place of `>=`.
RaisesAboveError(level) == raiseHandler /\ Enabled(level) /\ level > ERROR

\* RaiseOnErrorHandler.emit: raises for a record of level >= ERROR.
Raises(level) == raiseHandler /\ Enabled(level) /\ level >= ERROR

\* ---- the entry point -----------------------------------------------------
\* MainNext with the create_table(connection_pool) statement left out.
MainNextSkipsCreateTable(step) ==
    CASE step = "setup_logging" -> <<"main", "get_db_configuration">>
      [] step = "get_db_configuration" -> <<"main", "create_database">>
      [] step = "create_database" -> <<"main", "setup_connection_pool">>
      [] step = "setup_connection_pool" -> <<"main", "generate_data">>
      [] step = "create_table" -> <<"main", "generate_data">>
      [] step = "generate_data" -> <<"main", "completed">>
      [] OTHER -> <<"main", "done">>

\* The statements of the __main__ block, in order.
MainNext(step) ==
    CASE step = "setup_logging" -> <<"main", "get_db_configuration">>
      [] step = "get_db_configuration" -> <<"main", "create_database">>
      [] step = "create_database" -> <<"main", "setup_connection_pool">>
      [] step = "setup_connection_pool" -> <<"main", "create_table">>
      [] step = "create_table" -> <<"main", "generate_data">>
      [] step = "generate_data" -> <<"main", "completed">>
      [] OTHER -> <<"main", "done">>

\* An exception leaves the __main__ block: the interpreter prints it and exits.
Crash(fn, e) ==
    /\ pc' = <<"main", "crashed">>
    /\ exc' = e
    /\ crashedIn' = fn

Init ==
    /\ pc = <<"main", "setup_logging">>
    /\ exc = "none"
    /\ crashedIn = "none"
    /\ logLevel = WARNING          \* level of an unconfigured root logger
    /\ raiseHandler = FALSE
    /\ logged = {}
    /\ sigAt = NoPc
    /\ dbExists \in BOOLEAN
    /\ tableExists \in BOOLEAN
    /\ (tableExists => dbExists)
    /\ dbRuns = 0 /\ dbDone = FALSE
    /\ tableRuns = 0 /\ tableDone = FALSE /\ tableReady = FALSE
    /\ poolBuilt = FALSE
    /\ poolIdle = <<>>
    /\ used = {}
    /\ connState = [c \in ConnIds |-> "none"]
    /\ conn = Unbound
    /\ call = NoCall
    /\ phase = "none"
    /\ burst = 0
    /\ iter = 0
    /\ genStarted = FALSE
    /\ sched = "Idle"
    /\ powerSent = 0
    /\ caught = "none"

\* setup_logging(): LOG_LEVEL names the root level; basicConfig rejects an
\* unknown level name with ValueError before any handler is added.
SetupLogging ==
    /\ pc = <<"main", "setup_logging">>
    /\ \/ /\ \E lv \in LogLevels :
                /\ logLevel' = lv
                /\ logged' = IF INFO >= lv THEN logged \cup {"initiating"} ELSE logged
          /\ raiseHandler' = TRUE
          /\ pc' = MainNext("setup_logging")
          /\ UNCHANGED <<exc, crashedIn>>
       \/ /\ Crash("setup_logging", "ValueError")
          /\ UNCHANGED <<logLevel, raiseHandler, logged>>
    /\ UNCHANGED <<sigAt, caught, storeVars, bootVars, poolVars, conn, call, loopVars>>

\* get_db_configuration(): FileNotFoundError without .env, ValueError for a
\* missing or empty variable or a DB_PORT that is no integer.
GetDbConfiguration ==
    /\ pc = <<"main", "get_db_configuration">>
    /\ \E cfg \in {"ok", "no_env_file", "missing_variable", "bad_port"} :
          CASE cfg = "ok" ->
                   /\ pc' = MainNext("get_db_configuration")
                   /\ UNCHANGED <<exc, crashedIn>>
            [] cfg = "no_env_file" -> Crash("get_db_configuration", "FileNotFoundError")
            [] OTHER -> Crash("get_db_configuration", "ValueError")
    /\ UNCHANGED <<logCfg, logged, sigAt, caught, storeVars, bootVars, poolVars, conn,
                   call, loopVars>>

\* The catalogue lookup of create_database finds no row with the configured
\* name (`if not cursor.fetchone()`), with the lookup dropped.
DatabaseMissingUnchecked == TRUE

\* `if not cursor.fetchone()`: the catalogue has no row with the configured name.
DatabaseMissing == ~dbExists

\* create_database(): connect to the administrative database, create the
\* target database when the catalogue has no row for it; any Exception is
\* passed to logging.error.
CreateDatabase ==
    /\ pc = <<"main", "create_database">>
    /\ dbRuns' = dbRuns + 1
    /\ dbDone' = TRUE
    /\ \/ \* connect and SELECT succeed, the database is missing and is created
          /\ DatabaseMissing /\ ~dbExists
          /\ dbExists' = TRUE
          /\ logged' = Handled("database_created", INFO)
          /\ pc' = MainNext("create_database")
          /\ UNCHANGED <<exc, crashedIn, tableExists, caught>>
       \/ \* the database is already there
          /\ ~DatabaseMissing
          /\ logged' = Handled("database_exists", INFO)
          /\ pc' = MainNext("create_database")
          /\ UNCHANGED <<exc, crashedIn, storeVars, caught>>
       \/ \* connect or SELECT raises, or the store refuses CREATE DATABASE for a
          \* database that exists: except Exception
          /\ \/ caught' = "OperationalError"
             \/ DatabaseMissing /\ dbExists /\ caught' = "DuplicateDatabase"
          /\ logged' = Handled("error_creating_database", ERROR)
          /\ IF Raises(ERROR)
                THEN Crash("create_database", "RuntimeError")
                ELSE /\ pc' = MainNext("create_database")
                     /\ UNCHANGED <<exc, crashedIn>>
          /\ UNCHANGED storeVars
    /\ UNCHANGED <<logCfg, sigAt, tableRuns, tableDone, tableReady, poolBuilt,
                   poolVars, conn, call, loopVars>>

\* setup_connection_pool(): the pool opens minconn connections to the target
\* database at construction; psycopg2.DatabaseError is printed and re-raised.
SetupConnectionPool ==
    /\ pc = <<"main", "setup_connection_pool">>
    /\ \/ /\ dbExists
          /\ poolBuilt' = TRUE
          /\ poolIdle' = [i \in 1..minconn |-> i - 1]
          /\ connState' = [c \in ConnIds |-> IF c < minconn THEN "idle" ELSE "none"]
          /\ pc' = MainNext("setup_connection_pool")
          /\ UNCHANGED <<exc, crashedIn, used>>
       \/ /\ Crash("setup_connection_pool", "DatabaseError")
          /\ UNCHANGED <<poolBuilt, poolVars>>
    /\ UNCHANGED <<logCfg, logged, sigAt, caught, storeVars, dbRuns, dbDone, tableRuns,
                   tableDone, tableReady, conn, call, loopVars>>

\* ---- the connection pool (psycopg2 SimpleConnectionPool) -----------------
\* A connection object that is not open and that the pool does not hold.
IsFree(c) == connState[c] \in {"none", "closed"} /\ c \notin used

\* The object a new psycopg2.connect() returns.
FreshConn == CHOOSE c \in ConnIds : IsFree(c) /\ \A d \in ConnIds : IsFree(d) => c <= d

\* getconn() can hand out a connection: an idle one, or a new one below maxconn.
CanGet == poolIdle # <<>> \/ Cardinality(used) < maxconn

\* The connection getconn() hands out: the last idle one, else a new one.
Got == IF poolIdle # <<>> THEN poolIdle[Len(poolIdle)] ELSE FreshConn

\* putconn(c) keeps an open connection while the pool holds fewer than minconn
\* idle ones (rolling back an open or failed transaction); a closed or broken
\* connection is discarded, and a surplus one is closed.
\* st is the state of c when it is put back.
Keeps(st) == Len(poolIdle) < minconn /\ st \in {"idle", "intrans", "inerror"}
IdleAfterPut(c, st) == IF Keeps(st) THEN Append(poolIdle, c) ELSE poolIdle
StateAfterPut(c, st) == [connState EXCEPT ![c] = IF Keeps(st) THEN "idle" ELSE "closed"]

\* ---- create_table and insert_data: try / except Exception / finally -------
PoolFns == {"create_table", "insert_data"}

\* The call is entered: its locals are unassigned.
EnterCall(f) ==
    /\ pc' = <<f, "getconn">>
    /\ conn' = Unbound
    /\ call' = NewCall(f)

\* A statement of the try body raises e: `except Exception` takes an
\* Exception, a KeyboardInterrupt goes straight to the finally clause.
RaiseInTry(f, e, at) ==
    /\ exc' = e
    /\ IF e = "KeyboardInterrupt"
          THEN pc' = <<f, "finally">> /\ call' = call
          ELSE pc' = <<f, "except">> /\ call' = [call EXCEPT !.failedAt = at]

\* AfterInsert with the error sample inside a loop: it is rolled again.
AfterInsertErrorRepeats ==
    CASE phase = "state_change" -> <<"generate_data", "error_roll">>
      [] phase = "error" -> <<"generate_data", "error_roll">>
      [] OTHER -> <<"generate_data", "psleep">>

\* Where generate_data continues after insert_data returned.
AfterInsert ==
    CASE phase = "state_change" -> <<"generate_data", "error_roll">>
      [] phase = "error" -> <<"generate_data", "power">>
      [] OTHER -> <<"generate_data", "psleep">>

\* The call ends with exception e ("none": it returns).  create_table is
\* called from the __main__ block; insert_data from the try body of
\* generate_data, whose only handler is `except KeyboardInterrupt`.
Leave(f, e, released) ==
    /\ call' = [call EXCEPT !.state = IF e = "none" THEN "returned" ELSE "raised",
                            !.rel = call.rel + released,
                            !.err = e]
    /\ IF f = "create_table"
          THEN /\ tableDone' = TRUE
               /\ tableReady' = (e = "none" /\ call.failedAt = "none")
               /\ IF e = "none"
                     THEN /\ pc' = MainNext("create_table")
                          /\ exc' = "none"
                          /\ UNCHANGED crashedIn
                     ELSE Crash(f, e)
               /\ UNCHANGED sched
          ELSE /\ UNCHANGED <<tableDone, tableReady>>
               /\ CASE e = "none" ->
                          /\ pc' = AfterInsert
                          /\ exc' = "none"
                          /\ UNCHANGED <<crashedIn, sched>>
                    [] e = "KeyboardInterrupt" ->
                          /\ pc' = <<"generate_data", "warning">>
                          /\ exc' = "none"
                          /\ UNCHANGED <<crashedIn, sched>>
                    [] OTHER ->
                          /\ Crash(f, e)
                          /\ sched' = "Failed"

\* conn = connection_pool.getconn()
Getconn(f) ==
    /\ pc = <<f, "getconn">>
    /\ \/ /\ CanGet
          /\ poolIdle # <<>> \/ dbExists
          /\ conn' = Got
          /\ used' = used \cup {Got}
          /\ poolIdle' = IF poolIdle # <<>> THEN SubSeq(poolIdle, 1, Len(poolIdle) - 1)
                                             ELSE poolIdle
          /\ connState' = IF poolIdle # <<>> THEN connState
                                             ELSE [connState EXCEPT ![Got] = "idle"]
          /\ call' = [call EXCEPT !.acq = call.acq + 1]
          /\ pc' = <<f, "execute">>
          /\ UNCHANGED exc
       \/ \* PoolError (exhausted) or the new connection cannot be opened
          /\ poolIdle = <<>>
          /\ RaiseInTry(f, IF CanGet THEN "OperationalError" ELSE "PoolError", "getconn")
          /\ UNCHANGED <<conn, poolVars>>
    /\ UNCHANGED <<crashedIn, logCfg, logged, sigAt, caught, storeVars, bootVars, loopVars>>

\* TABLE_SCHEMA reads CREATE TABLE IF NOT EXISTS.
IfNotExists == TRUE

\* cursor = conn.cursor(); cursor.execute(...)
Execute(f) ==
    /\ pc = <<f, "execute">>
    /\ \/ /\ f = "insert_data" => tableExists
          /\ f = "create_table" => (IfNotExists \/ ~tableExists)
          /\ connState' = [connState EXCEPT ![conn] = "intrans"]
          /\ pc' = <<f, "commit">>
          /\ UNCHANGED <<exc, call>>
       \/ \E st \in {"inerror", "bad"} :
             /\ connState' = [connState EXCEPT ![conn] = st]
             /\ RaiseInTry(f, IF st = "bad" THEN "OperationalError" ELSE "ProgrammingError",
                           "execute")
       \/ \* a plain CREATE TABLE of a table that exists
          /\ f = "create_table" /\ tableExists /\ ~IfNotExists
          /\ connState' = [connState EXCEPT ![conn] = "inerror"]
          /\ RaiseInTry(f, "DuplicateTable", "execute")
    /\ UNCHANGED <<crashedIn, logCfg, logged, sigAt, caught, storeVars, bootVars, poolIdle,
                   used, conn, loopVars>>

\* The try body without conn.commit(): the transaction stays open.
CommitSkipped(f) ==
    /\ pc = <<f, "commit">>
    /\ pc' = <<f, "close">>
    /\ UNCHANGED <<exc, crashedIn, logCfg, logged, sigAt, caught, storeVars, bootVars,
                   poolVars, conn, call, loopVars>>

\* conn.commit()
Commit(f) ==
    /\ pc = <<f, "commit">>
    /\ \/ /\ connState' = [connState EXCEPT ![conn] = "idle"]
          /\ tableExists' = (tableExists \/ f = "create_table")
          /\ call' = [call EXCEPT !.committed =
                         call.committed + (IF f = "insert_data" THEN 1 ELSE 0)]
          /\ pc' = <<f, "close">>
          /\ UNCHANGED exc
       \/ /\ connState' = [connState EXCEPT ![conn] = "bad"]
          /\ RaiseInTry(f, "OperationalError", "commit")
          /\ UNCHANGED tableExists
    /\ UNCHANGED <<crashedIn, logCfg, logged, sigAt, caught, dbExists, bootVars, poolIdle,
                   used, conn, loopVars>>

\* cursor.close(); conn.close()
Close(f) ==
    /\ pc = <<f, "close">>
    /\ connState' = [connState EXCEPT ![conn] = "closed"]
    /\ pc' = IF f = "create_table" THEN <<f, "info">> ELSE <<f, "finally">>
    /\ UNCHANGED <<exc, crashedIn, logCfg, logged, sigAt, caught, storeVars, bootVars,
                   poolIdle, used, conn, call, loopVars>>

\* logging.info(f"Table {table_name} is ready.")
TableInfo ==
    /\ pc = <<"create_table", "info">>
    /\ logged' = Handled("table_ready", INFO)
    /\ pc' = <<"create_table", "finally">>
    /\ UNCHANGED <<exc, crashedIn, logCfg, sigAt, caught, storeVars, bootVars, poolVars,
                   conn, call, loopVars>>

\* except Exception as e: logging.error(...)
Except(f) ==
    /\ pc = <<f, "except">>
    /\ logged' = Handled(IF f = "create_table" THEN "error_creating_table"
                                               ELSE "error_inserting_data", ERROR)
    /\ caught' = exc
    /\ exc' = IF Raises(ERROR) THEN "RuntimeError" ELSE "none"
    /\ pc' = <<f, "finally">>
    /\ UNCHANGED <<crashedIn, logCfg, sigAt, storeVars, bootVars, poolVars, conn,
                   call, loopVars>>

\* finally: if conn: connection_pool.putconn(conn)
\* Reading the unassigned local raises UnboundLocalError in place of whatever
\* was propagating.
Finally(f) ==
    /\ pc = <<f, "finally">>
    /\ IF conn = Unbound
          THEN /\ Leave(f, "UnboundLocalError", 0)
               /\ UNCHANGED poolVars
          ELSE /\ poolIdle' = IdleAfterPut(conn, connState[conn])
               /\ connState' = StateAfterPut(conn, connState[conn])
               /\ used' = used \ {conn}
               /\ Leave(f, exc, 1)
    /\ UNCHANGED <<logCfg, logged, sigAt, caught, storeVars, dbRuns, dbDone, tableRuns,
                   poolBuilt, conn, phase, burst, powerSent, iter, genStarted>>

CreateTableGetconn == Getconn("create_table")
CreateTableExecute == Execute("create_table")
CreateTableCommit == Commit("create_table")
CreateTableClose == Close("create_table")
CreateTableExcept == Except("create_table")
CreateTableFinally == Finally("create_table")
InsertDataGetconn == Getconn("insert_data")
InsertDataExecute == Execute("insert_data")
InsertDataCommit == Commit("insert_data")
InsertDataClose == Close("insert_data")
InsertDataExcept == Except("insert_data")
InsertDataFinally == Finally("insert_data")

\* create_table(connection_pool) in the __main__ block
CallCreateTable ==
    /\ pc = <<"main", "create_table">>
    /\ EnterCall("create_table")
    /\ tableRuns' = tableRuns + 1
    /\ UNCHANGED <<exc, crashedIn, logCfg, logged, sigAt, caught, storeVars, dbRuns, dbDone,
                   tableDone, tableReady, poolBuilt, poolVars, loopVars>>

\* ---- generate_data ---------------------------------------------------------
\* generate_data(connection_pool) in the __main__ block: the loop is entered.
CallGenerateData ==
    /\ pc = <<"main", "generate_data">>
    /\ pc' = <<"generate_data", "sleep">>
    /\ sched' = "Running"
    /\ UNCHANGED <<exc, crashedIn, logCfg, logged, sigAt, caught, storeVars, bootVars,
                   poolVars, conn, call, phase, burst, powerSent, iter, genStarted>>

\* time.sleep(random.uniform(1, 5))
Sleep ==
    /\ pc = <<"generate_data", "sleep">>
    /\ iter < MaxIters
    /\ pc' = <<"generate_data", "state_change">>
    /\ UNCHANGED <<exc, crashedIn, logCfg, logged, sigAt, caught, storeVars, bootVars,
                   poolVars, conn, call, loopVars>>

\* insert_data(connection_pool, "state_change", ...)
StateChange ==
    /\ pc = <<"generate_data", "state_change">>
    /\ EnterCall("insert_data")
    /\ phase' = "state_change"
    /\ genStarted' = TRUE
    /\ powerSent' = 0
    /\ UNCHANGED <<exc, crashedIn, logCfg, logged, sigAt, caught, storeVars, bootVars,
                   poolVars, burst, iter, sched>>

\* if random.random() < 0.1:
ErrorRoll ==
    /\ pc = <<"generate_data", "error_roll">>
    /\ \E hit \in BOOLEAN :
          pc' = IF hit THEN <<"generate_data", "error">> ELSE <<"generate_data", "power">>
    /\ UNCHANGED <<exc, crashedIn, logCfg, logged, sigAt, caught, storeVars, bootVars,
                   poolVars, conn, call, loopVars>>

\* insert_data(connection_pool, "error", ...)
ErrorSample ==
    /\ pc = <<"generate_data", "error">>
    /\ EnterCall("insert_data")
    /\ phase' = "error"
    /\ UNCHANGED <<exc, crashedIn, logCfg, logged, sigAt, caught, storeVars, bootVars,
                   poolVars, burst, powerSent, iter, genStarted, sched>>

\* for _ in range(100): insert_data(connection_pool, "power", ...)
\* When the range is exhausted the try body ends and `while True` repeats.
Power ==
    /\ pc = <<"generate_data", "power">>
    /\ IF burst < BurstSize
          THEN /\ EnterCall("insert_data")
               /\ phase' = "power"
               /\ powerSent' = powerSent + 1
               /\ UNCHANGED <<burst, iter>>
          ELSE /\ pc' = <<"generate_data", "sleep">>
               /\ burst' = 0
               /\ iter' = iter + 1
               /\ UNCHANGED <<conn, call, phase, powerSent>>
    /\ UNCHANGED <<exc, crashedIn, logCfg, logged, sigAt, caught, storeVars, bootVars,
                   poolVars, genStarted, sched>>

\* time.sleep(0.01)
PowerSleep ==
    /\ pc = <<"generate_data", "psleep">>
    /\ burst' = burst + 1
    /\ pc' = <<"generate_data", "power">>
    /\ UNCHANGED <<exc, crashedIn, logCfg, logged, sigAt, caught, storeVars, bootVars,
                   poolVars, conn, call, phase, iter, genStarted, sched, powerSent>>

\* The handler without `break`: the while loop goes on.
WarningContinues ==
    /\ pc = <<"generate_data", "warning">>
    /\ logged' = Handled("data_generation_stopped", WARNING)
    /\ pc' = <<"generate_data", "sleep">>
    /\ UNCHANGED <<exc, crashedIn, logCfg, sigAt, caught, storeVars, bootVars,
                   poolVars, conn, call, loopVars>>

\* except KeyboardInterrupt: logging.warning("Data generation stopped."); break
Warning ==
    /\ pc = <<"generate_data", "warning">>
    /\ logged' = Handled("data_generation_stopped", WARNING)
    /\ IF Raises(WARNING)
          THEN Crash("generate_data", "RuntimeError") /\ sched' = "Failed"
          ELSE /\ pc' = MainNext("generate_data")
               /\ sched' = "Stopped"
               /\ UNCHANGED <<exc, crashedIn>>
    /\ UNCHANGED <<logCfg, sigAt, caught, storeVars, bootVars, poolVars, conn, call, phase,
                   burst, powerSent, iter, genStarted>>

\* logging.info("Completed executing.")
Completed ==
    /\ pc = <<"main", "completed">>
    /\ logged' = Handled("completed", INFO)
    /\ pc' = MainNext("completed")
    /\ UNCHANGED <<exc, crashedIn, logCfg, sigAt, caught, storeVars, bootVars, poolVars,
                   conn, call, loopVars>>

\* ---- KeyboardInterrupt ------------------------------------------------------
TryBody == {"getconn", "execute", "commit", "close", "info"}
LoopBody == {"sleep", "state_change", "error_roll", "error", "power", "psleep"}
Terminal == {<<"main", "done">>, <<"main", "crashed">>}

\* SIGINT: the interpreter raises KeyboardInterrupt in place of the statement at
\* pc.  In the try body or the except clause of create_table / insert_data the
\* finally clause runs next; in the finally clause the rest of the clause is
\* skipped; in the try body of generate_data its handler runs; anywhere else
\* nothing catches it.
Interrupt ==
    /\ sigAt = NoPc
    /\ pc \notin Terminal
    /\ sigAt' = pc
    /\ CASE pc[1] \in PoolFns /\ pc[2] \in TryBody \cup {"except"} ->
               /\ pc' = <<pc[1], "finally">>
               /\ exc' = "KeyboardInterrupt"
               /\ UNCHANGED <<crashedIn, call, tableDone, tableReady, sched>>
         [] pc[1] \in PoolFns /\ pc[2] = "finally" ->
               Leave(pc[1], "KeyboardInterrupt", 0)
         [] pc[1] = "generate_data" /\ pc[2] \in LoopBody ->
               /\ pc' = <<"generate_data", "warning">>
               /\ UNCHANGED <<exc, crashedIn, call, tableDone, tableReady, sched>>
         [] OTHER ->
               /\ Crash(pc[2], "KeyboardInterrupt")
               /\ sched' = IF pc[1] = "generate_data" THEN "Failed" ELSE sched
               /\ UNCHANGED <<call, tableDone, tableReady>>
    /\ UNCHANGED <<logCfg, logged, storeVars, dbRuns, dbDone, tableRuns, poolBuilt,
                   poolVars, conn, phase, burst, powerSent, iter, genStarted, caught>>

Next ==
    \/ SetupLogging
    \/ GetDbConfiguration
    \/ CreateDatabase
    \/ SetupConnectionPool
    \/ CallCreateTable
    \/ CreateTableGetconn
    \/ CreateTableExecute
    \/ CreateTableCommit
    \/ CreateTableClose
    \/ TableInfo
    \/ CreateTableExcept
    \/ CreateTableFinally
    \/ CallGenerateData
    \/ Sleep
    \/ StateChange
    \/ ErrorRoll
    \/ ErrorSample
    \/ Power
    \/ PowerSleep
    \/ InsertDataGetconn
    \/ InsertDataExecute
    \/ InsertDataCommit
    \/ InsertDataClose
    \/ InsertDataExcept
    \/ InsertDataFinally
    \/ Warning
    \/ Completed
    \/ Interrupt

Spec == Init /\ [][Next]_vars

\* ---- several callers of insert_data on one pool ----------------------------
\* The state in which callers share the pool: startup has succeeded.
InitCallers ==
    /\ pc = <<"callers", "insert_data">>
    /\ exc = "none"
    /\ crashedIn = "none"
    /\ logLevel = INFO
    /\ raiseHandler = TRUE
    /\ logged = {}
    /\ sigAt = NoPc
    /\ dbExists = TRUE
    /\ tableExists = TRUE
    /\ dbRuns = 1 /\ dbDone = TRUE
    /\ tableRuns = 1 /\ tableDone = TRUE /\ tableReady = TRUE
    /\ poolBuilt = TRUE
    /\ poolIdle = [i \in 1..minconn |-> i - 1]
    /\ used = {}
    /\ connState = [c \in ConnIds |-> IF c < minconn THEN "idle" ELSE "none"]
    /\ conn = Unbound
    /\ call = NoCall
    /\ phase = "none"
    /\ burst = 0
    /\ iter = 0
    /\ genStarted = TRUE
    /\ sched = "Running"
    /\ powerSent = 0
    /\ caught = "none"

\* A caller enters insert_data and executes conn = connection_pool.getconn():
\* it gets a connection, or the call raises and the pool is as before.
CallerGetconn ==
    /\ pc = <<"callers", "insert_data">>
    /\ \/ /\ CanGet
          /\ used' = used \cup {Got}
          /\ poolIdle' = IF poolIdle # <<>> THEN SubSeq(poolIdle, 1, Len(poolIdle) - 1)
                                             ELSE poolIdle
          /\ connState' = IF poolIdle # <<>> THEN connState
                                             ELSE [connState EXCEPT ![Got] = "idle"]
          /\ exc' = "none"
       \/ /\ poolIdle = <<>>
          /\ exc' = IF CanGet THEN "OperationalError" ELSE "PoolError"
          /\ UNCHANGED poolVars
    /\ UNCHANGED <<pc, crashedIn, logCfg, logged, sigAt, caught, storeVars, bootVars, conn,
                   call, loopVars>>

\* The caller holding c runs the rest of insert_data: execute, commit and close
\* leave its connection closed, failed, broken or (cancelled) in a transaction;
\* the finally clause calls putconn(c).
CallerPutconn ==
    /\ pc = <<"callers", "insert_data">>
    /\ \E c \in used, st \in {"closed", "inerror", "bad", "intrans"} :
          /\ poolIdle' = IdleAfterPut(c, st)
          /\ connState' = StateAfterPut(c, st)
          /\ used' = used \ {c}
          /\ exc' = IF st = "closed" THEN "none" ELSE exc
    /\ UNCHANGED <<pc, crashedIn, logCfg, logged, sigAt, caught, storeVars, bootVars, conn,
                   call, loopVars>>

NextCallers == CallerGetconn \/ CallerPutconn

SpecCallers == InitCallers /\ [][NextCallers]_vars

\* ---- properties ---------------------------------------------------------------
\* The latest create_table / insert_data call has returned or raised.
Ended == call.state \in {"returned", "raised"}
Crashed == pc = <<"main", "crashed">>
InPool(c) == \E i \in 1..Len(poolIdle) : poolIdle[i] = c

\* C1 (write isolation): an insert_data call whose execute or commit raised,
\* and that no cancellation touched, returns normally and leaves the Scheduler
\* running.
C1_WriteIsolation ==
    (call.fn = "insert_data" /\ Ended /\ call.failedAt \in {"execute", "commit"}
        /\ sigAt = NoPc)
    => (call.state = "returned" /\ sched = "Running" /\ ~Crashed)

\* C2 (pool exhaustion isolated): an insert_data call whose getconn() raised,
\* and that no cancellation touched, returns normally and leaves the Scheduler
\* running.
C2_GetconnFailureIsolated ==
    (call.fn = "insert_data" /\ Ended /\ call.failedAt = "getconn" /\ sigAt = NoPc)
    => (call.state = "returned" /\ sched = "Running" /\ ~Crashed)

\* C3 (no leak): a call never releases more than it acquired nor more than
\* once, and when it has returned or raised it has released what it acquired,
\* so that nothing is checked out.
C3_NoLeak ==
    /\ call.rel <= call.acq
    /\ call.rel <= 1
    /\ Ended => (call.rel = call.acq /\ used = {})

\* C4 (returned, not destroyed): when a call has completed successfully (its
\* try body ran to the end and it returned), the connection it used is open
\* and idle in the pool.
C4_ReturnedNotDestroyed ==
    (call.state = "returned" /\ call.failedAt = "none" /\ call.acq = 1)
    => (connState[conn] = "idle" /\ InPool(conn))

C6_GenerationGated == genStarted => tableReady

\* C7 (bootstrap failures do not crash): no exception other than the
\* cancellation leaves create_database or create_table.
C7_BootstrapSurvives ==
    crashedIn \in {"create_database", "create_table"} => exc = "KeyboardInterrupt"

\* C8 (only a configuration error terminates): the process is never ended by
\* an exception of database creation, pool construction, table creation or a
\* write, cancellation apart.
C8_OnlyConfigurationTerminates ==
    Crashed => \/ exc = "KeyboardInterrupt"
               \/ crashedIn \notin {"create_database", "setup_connection_pool",
                                    "create_table", "insert_data"}

\* C9 (startup order): create_database and create_table are entered at most
\* once each, and when generate_data has attempted a write each has been
\* entered exactly once and has finished.
C9_StartupOrder ==
    /\ dbRuns <= 1
    /\ tableRuns <= 1
    /\ genStarted => (dbRuns = 1 /\ dbDone /\ tableRuns = 1 /\ tableDone)
    /\ (pc[1] = "create_table" \/ pc \in {<<"main", "create_database">>,
                                           <<"main", "create_table">>}) => ~genStarted

\* C9 witness: generate_data is about to acquire a connection for its first
\* state_change sample.
C9_FirstWrite ==
    /\ pc = <<"insert_data", "getconn">>
    /\ phase = "state_change" /\ iter = 0
    /\ dbRuns = 1 /\ tableRuns = 1

\* C10 (no write aborted by cancellation): an insert_data call that was
\* cancelled after its acquire and before its commit finished has committed
\* its row when it ends.
C10_InFlightWriteCompletes ==
    (call.fn = "insert_data" /\ Ended
        /\ sigAt \in {<<"insert_data", "execute">>, <<"insert_data", "commit">>})
    => call.committed = 1

\* C11 (clean stop on cancellation): a cancellation signal that arrives in the
\* loop body of generate_data (its own statements or the insert_data call in
\* progress) never ends in an exception leaving generate_data.
C11_CleanStop ==
    sigAt[1] \in {"generate_data", "insert_data"} => (~Crashed /\ sched # "Failed")

\* The cancellation signal arrived inside the power burst.
SigInBurst ==
    \/ sigAt \in {<<"generate_data", "power">>, <<"generate_data", "psleep">>}
    \/ sigAt[1] = "insert_data" /\ phase = "power"

\* C12 (cancellation latency in a burst): once the signal has arrived inside
\* the power burst, the program is only in the finally clause of the call in
\* progress, in the handler of generate_data or past the loop, and no further
\* sample is started.
C12_BurstCancellation ==
    /\ [](SigInBurst => pc \in {<<"insert_data", "finally">>,
                                 <<"generate_data", "warning">>,
                                 <<"main", "completed">>, <<"main", "done">>,
                                 <<"main", "crashed">>})
    /\ [][SigInBurst => /\ powerSent' = powerSent
                        /\ burst' = burst
                        /\ iter' = iter
                        /\ pc' # <<"insert_data", "getconn">>]_vars

\* C12 witness: the Scheduler has stopped on a signal that arrived in the
\* middle of a burst.
C12_StoppedInBurst ==
    SigInBurst /\ sched = "Stopped" /\ powerSent > 0 /\ powerSent < BurstSize

\* C13 (Scheduler life cycle): the Scheduler has left Running only after a
\* cancellation signal, never because of the outcome of a write.
C13_LifeCycle == sched \notin {"Idle", "Running"} => sigAt # NoPc

\* C14 (burst size): never more than 100 power samples follow a state_change
\* sample, and when the loop is back at the coarse tick after a completed
\* iteration exactly 100 were submitted.
C14_BurstSize ==
    /\ powerSent <= 100
    /\ (iter >= 1 /\ pc \in {<<"generate_data", "sleep">>,
                             <<"generate_data", "state_change">>})
       => powerSent = 100

\* C14 witness: the state_change sample of the second iteration is about to be
\* submitted, after a burst of 100.
C14_NextTick ==
    pc = <<"generate_data", "state_change">> /\ iter = 1 /\ powerSent = 100

\* generate_data submits a sample: it calls insert_data.
NewSample == pc[1] = "generate_data" /\ pc' = <<"insert_data", "getconn">>

\* C15 (cadence skeleton): a state_change sample follows nothing or a power
\* sample; an error sample follows only a state_change sample; a power sample
\* follows a state_change, error or power sample, and the first of a burst is
\* the first since the state_change sample.
C15_Cadence ==
    [][NewSample =>
          /\ phase' = "state_change" => phase \in {"none", "power"}
          /\ phase' = "error" => phase = "state_change"
          /\ phase' = "power" => phase \in {"state_change", "error", "power"}
          /\ (phase' = "power" /\ phase # "power") => powerSent' = 1]_vars

\* C15 witness: the error sample of an iteration has returned and the burst
\* is about to start.
C15_ErrorThenBurst ==
    pc = <<"generate_data", "power">> /\ phase = "error" /\ powerSent = 0

C17_IdempotentBootstrap ==
    /\ [](caught \notin {"DuplicateDatabase", "DuplicateTable"})
    /\ [][(dbExists => dbExists') /\ (tableExists => tableExists')]_vars

\* C17 witness: on a store that had the database and the table, create_database
\* found the database and the CREATE TABLE statement was accepted.
C17_SecondBootstrap ==
    /\ pc = <<"create_table", "commit">>
    /\ tableExists /\ dbExists /\ caught = "none"
    /\ logLevel = INFO /\ "database_created" \notin logged

ErrorMessages == {"error_creating_database", "error_creating_table",
                  "error_inserting_data"}

\* C19 (logging raises on ERROR): a step that hands an error record to the
\* file and console handlers raises RuntimeError; a step that hands them a
\* record below ERROR raises nothing.
C19_RaiseOnError ==
    [][/\ (logged' \ logged) \cap ErrorMessages # {} => exc' = "RuntimeError"
       /\ ((logged' \ logged) # {} /\ (logged' \ logged) \cap ErrorMessages = {})
          => (exc' = exc /\ pc' # <<"main", "crashed">>)]_vars

\* C19 witness: the error record of a failed write was handled and
\* RuntimeError is propagating out of insert_data.
C19_ErrorRaised ==
    /\ pc = <<"insert_data", "finally">>
    /\ "error_inserting_data" \in logged /\ exc = "RuntimeError"

\* C20 (cancellation never strands a connection): when the Scheduler is
\* Stopped no connection is checked out of the pool.
C20_NothingCheckedOut == sched = "Stopped" => used = {}

====
